---- MODULE Spec2Model ----
(***************************************************************************)
(* Model of the EventStore -> SQLite converter (src/main.py):              *)
(*   SQLiteEvent          the per-event normalisation                      *)
(*   SQLiteEventStore     the batch writer over one sqlite3 connection     *)
(*   eventstore_client    the scoped source client                         *)
(*   convert_events       the streaming loop                               *)
(* The sqlite3 driver and the EventStore client are the environment: each  *)
(* call into them either succeeds or raises, chosen nondeterministically.  *)
(***************************************************************************)
EXTENDS Integers, Sequences, FiniteSets, TLC

(* ------------------------------ bounds ------------------------------- *)
MaxSrc == 3        \* longest source sequence
MaxBatchSize == 2  \* largest config.batch_size
MaxFreq == 2       \* largest config.commit_frequency
MaxCalls == 3      \* longest call sequence of the writer harness
MaxRuns == 2       \* runs of the pipeline against one destination
MaxKinds == 2      \* longest source of the runs without validation
MaxFileCalls == 3  \* method calls on a store over an existing file
MaxResume == 1     \* longest source of a run against an existing file

(* ----------------------------- constants ----------------------------- *)
MAX_DATA_SIZE == 1024 * 1024

\* Python's None where the other values of the attribute are strings.
None == "<None>"

\* The exception classes the model tells apart.
\*   EventValidationError  raised by SQLiteEvent
\*   sqlite3.Error         any driver failure of the destination
\*   ConnectionError, OSError, ValueError
\*                         the classes eventstore_client re-wraps (the
\*                         environment raises OSError for this group)
\*   Exception             any other Exception subclass (the AttributeError
\*                         of an event without recorded_at, RuntimeError)
\*   KeyboardInterrupt     operator interrupt (a BaseException)
NoExc == "none"
Wrapped == {"ConnectionError", "OSError", "ValueError"}
EnvErrors == {"OSError"}

(* --------------------------- raw events ------------------------------ *)
\* event.data : kind none | str | bytes | obj.  good says whether bytes
\* decode as UTF-8 / the object is JSON-serialisable; nbytes is the UTF-8
\* length of the text the payload resolves to.
NoData == [kind |-> "none", val |-> "", good |-> TRUE, nbytes |-> 0]
StrData(v, n) == [kind |-> "str", val |-> v, good |-> TRUE, nbytes |-> n]
BytesData(v, g, n) == [kind |-> "bytes", val |-> v, good |-> g, nbytes |-> n]
ObjData(v, g, n) == [kind |-> "obj", val |-> v, good |-> g, nbytes |-> n]

\* event.recorded_at : a datetime (its POSIX seconds) or None.
At(t) == [isnone |-> FALSE, ts |-> t]
NoTime == [isnone |-> TRUE, ts |-> 0]

\* The seven positioning attributes of a RecordedEvent.
PositioningAttributes ==
    {"stream_position", "commit_position", "prepare_position", "retry_count",
     "link", "content_type", "created"}

\* Value of an attribute: the attribute is missing on the object, or it is
\* None, a number, a text, a datetime (its POSIX seconds), or another event
\* record (a resolved link).
Missing == [kind |-> "missing", v |-> 0]
NoneV == [kind |-> "none", v |-> 0]
IntV(n) == [kind |-> "int", v |-> n]
StrV(n) == [kind |-> "str", v |-> n]
DatetimeV(t) == [kind |-> "datetime", v |-> t]
RecordV == [kind |-> "record", v |-> 0]

\* The attributes of the events the tests build (create_mock_event).
DefaultMeta ==
    [k \in PositioningAttributes |->
        CASE k = "link" -> NoneV
          [] k = "content_type" -> StrV(1)
          [] k = "created" -> DatetimeV(1)
          [] OTHER -> IntV(1)]

RawEventM(i, ty, sn, at, d, m) ==
    [id |-> i, type |-> ty, stream_name |-> sn, recorded_at |-> at, data |-> d,
     meta |-> m]

\* An event whose positioning attributes are all None; meta lists the
\* attributes that are not None.
BareMeta == [k \in {} |-> NoneV]

RawEvent(i, ty, sn, at, d) == RawEventM(i, ty, sn, at, d, BareMeta)

\* The events a source may deliver: two versions of event a (same id, other
\* payload), an event with undecodable bytes and no type, an event recorded
\* at the epoch, and a record without a timestamp.
EvA1 == RawEvent("a", "T", "s", At(1), StrData("x", 1))
EvA2 == RawEvent("a", "T", "s", At(2), StrData("y", 1))
EvB == RawEvent("b", None, "", At(3), BytesData("z", FALSE, 3))
EvC == RawEvent("c", "T", "s", At(0), NoData)
EvD == RawEvent("d", "T", "s", NoTime, ObjData("o", TRUE, 2))
Events == {EvA1, EvA2, EvB, EvC, EvD}

\* Payloads of every kind, with UTF-8 lengths around MAX_DATA_SIZE.
Sizes == {0, 1, MAX_DATA_SIZE - 1, MAX_DATA_SIZE, MAX_DATA_SIZE + 1}
Payloads ==
    {NoData}
      \cup {StrData("x", n) : n \in Sizes}
      \cup {BytesData("x", g, n) : g \in BOOLEAN, n \in Sizes}
      \cup {ObjData("x", g, n) : g \in BOOLEAN, n \in Sizes}

\* One payload of every kind: absent, text, decodable and undecodable
\* bytes, serialisable and unserialisable object, each small and oversized.
PayloadKinds ==
    {d \in Payloads : d.nbytes \in {1, MAX_DATA_SIZE + 1}} \cup {NoData}

\* A well-formed event carrying payload d.
EvP(d) == RawEvent("p", "T", "s", At(1), d)

\* Positioning attributes of every kind of value: one attribute differs
\* from the default, or all seven hold the same kind of value.
AttributeValues == {Missing, NoneV, IntV(2), StrV(2), DatetimeV(2), RecordV}
MetaProfiles ==
    {[DefaultMeta EXCEPT ![k] = v] :
        k \in PositioningAttributes, v \in AttributeValues}
      \cup {[k \in PositioningAttributes |-> v] : v \in AttributeValues}

\* Events that differ in type, stream name and timestamp.
Headers ==
    {RawEvent("h", ty, sn, at, NoData) :
        ty \in {None, "", "T"}, sn \in {None, "", "s"},
        at \in {At(0), At(1), NoTime}}

\* The events SQLiteEvent is applied to on its own.
NormalizeInputs ==
    {EvP(d) : d \in Payloads}
      \cup {RawEventM("m", "T", "s", At(1), StrData("x", 1), m) :
               m \in MetaProfiles}
      \cup Headers

(* ------------------------- SQLiteEvent ------------------------------- *)
\* Column value NULL / a text with its UTF-8 length.
Null == [isnull |-> TRUE, text |-> <<>>, nbytes |-> 0]
Text(form, v, n) == [isnull |-> FALSE, text |-> <<form, v>>, nbytes |-> n]

Ok(v) == [ok |-> TRUE, val |-> v, err |-> NoExc, why |-> ""]
Raise(e, w) == [ok |-> FALSE, val |-> Null, err |-> e, why |-> w]

\* Variant of the conversion: every payload goes through json.dumps, bytes
\* included (json.dumps raises TypeError on bytes).
ResolveAsJson(data) ==
    CASE data.kind = "bytes" -> Raise("TypeError", "Unserializable")
      [] OTHER ->
           IF data.good THEN Ok(Text("json", data.val, data.nbytes))
           ELSE Raise("TypeError", "Unserializable")

\* data.decode("utf-8") / data / json.dumps(data): the text and whether the
\* conversion raised.
Resolve(data) ==
    CASE data.kind = "bytes" ->
           IF data.good THEN Ok(Text("utf8", data.val, data.nbytes))
           ELSE Raise("UnicodeDecodeError", "InvalidEncoding")
      [] data.kind = "str" -> Ok(Text("str", data.val, data.nbytes))
      [] OTHER ->
           IF data.good THEN Ok(Text("json", data.val, data.nbytes))
           ELSE Raise("TypeError", "Unserializable")

\* Variant of the payload step that does not honour validate.
_process_event_data_lenient(data, validate) ==
    IF data.kind = "none" THEN Ok(Null)
    ELSE LET r == Resolve(data) IN
         IF ~r.ok THEN Ok(Null) ELSE Ok(r.val)

\* Variant of the size test: a text of MAX_DATA_SIZE bytes is rejected too.
TooLargeInclusive(nbytes) == nbytes >= MAX_DATA_SIZE

\* len(data_str.encode("utf-8")) > self.MAX_DATA_SIZE
TooLarge(nbytes) == nbytes > MAX_DATA_SIZE

\* Variant of the handlers of the conversion: raise whatever validate is.
OnUnresolvedStrict(validate, why) == Raise("EventValidationError", why)

\* except UnicodeDecodeError / except (TypeError, ValueError):
\*     if validate: raise EventValidationError(...); return None
OnUnresolved(validate, why) ==
    IF validate THEN Raise("EventValidationError", why) ELSE Ok(Null)

_process_event_data(data, validate) ==
    IF data.kind = "none" THEN Ok(Null)
    ELSE LET r == Resolve(data) IN
         IF ~r.ok
         THEN OnUnresolved(validate, r.why)
         ELSE IF validate /\ TooLarge(r.val.nbytes)
              THEN Raise("EventValidationError", "TooLarge")
              ELSE Ok(r.val)

\* x or "unknown"
OrUnknown(x) == IF x = None \/ x = "" THEN "unknown" ELSE x

\* event.<key>, None for the attributes meta does not list.
Attr(event, key) ==
    IF key \in DOMAIN event.meta THEN event.meta[key] ELSE NoneV

\* getattr(event, key, default)
Getattr(event, key, default) ==
    IF Attr(event, key).kind = "missing" THEN default ELSE Attr(event, key)

\* hasattr(value, "timestamp"): datetime objects.
HasTimestamp(value) == value.kind = "datetime"

\* json.dumps accepts numbers and texts as values of the mapping and raises
\* TypeError on any other object.
JsonSerializable(value) == value.kind \in {"int", "str"}

\* _serialize_metadata(event): the JSON text of the cleaned mapping, or the
\* TypeError json.dumps raises.
_serialize_metadata(event) ==
    LET metadata ==
            [k \in PositioningAttributes |->
                Getattr(event, k, IF k = "retry_count" THEN IntV(0) ELSE NoneV)]
        kept == {k \in PositioningAttributes : metadata[k].kind # "none"}
        cleaned_metadata ==
            [k \in kept |->
                IF HasTimestamp(metadata[k]) THEN IntV(metadata[k].v)
                ELSE metadata[k]]
    IN IF \A k \in kept : JsonSerializable(cleaned_metadata[k])
       THEN Ok(Text("json", cleaned_metadata, 0))
       ELSE Raise("Exception", "TypeError")

\* SQLiteEvent(event, validate): the record, or the exception it raises.
SQLiteEvent(event, validate) ==
    IF event.recorded_at.isnone
    THEN Raise("Exception", "AttributeError")
    ELSE LET d == _process_event_data(event.data, validate)
             m == _serialize_metadata(event)
         IN
         IF ~d.ok THEN d
         ELSE IF ~m.ok THEN m
         ELSE Ok([id |-> event.id,
                  type |-> OrUnknown(event.type),
                  stream_name |-> OrUnknown(event.stream_name),
                  recorded_at |-> event.recorded_at.ts,
                  data |-> d.val,
                  eventstore_metadata |-> m.val])

(* ------------------------------ state -------------------------------- *)
VARIABLES
    config,             \* ConversionConfig of the run
    source,             \* the events client.read_all() will deliver
    parent_dir,         \* config.db_path.parent: absent / present / blocked
    pc,                 \* position of convert_events
    pos,                \* events pulled from read_response so far
    events_batch,       \* convert_events: pending batch
    total_processed,    \* convert_events: total_processed
    skipped_events,     \* convert_events: skipped_events
    exc,                \* exception in flight inside convert_events
    raised,             \* what the caller of convert_events got
    stats,              \* the statistics convert_events returned
    client,             \* EventStoreDBClient: none / open / closed
    client_closes,      \* calls of client.close()
    read_response,      \* read handle: none / open / stopped
    stops,              \* calls of read_response.stop()
    connection,         \* SQLiteEventStore.connection: None / conn
    events_processed,   \* SQLiteEventStore.events_processed
    batches_processed,  \* SQLiteEventStore.batches_processed
    sqlite_opens,       \* driver connections established
    sqlite_closes,      \* driver connections closed by connection.close()
    tables,             \* tables of the destination file
    events_tx,          \* events table as the open connection sees it
    events_db,          \* events table, committed (durable) rows
    meta_tx,            \* conversion_metadata as the connection sees it
    meta_db,            \* conversion_metadata, committed rows
    now,                \* clock behind strftime('%s','now') / time.time()
    calls,              \* history: save_events_batch calls of this writer
    normalized,         \* history: records SQLiteEvent returned, in order
    loop_exit,          \* history: how the for loop was left, and its buffer
    run,                \* number of the current run
    first_run,          \* history: destination and counters after run 1
    opened,             \* history: the log and the table at the last connect
    close_failed,       \* history: step at which the last close() failed
    close_raised        \* history: the last close() raised to its caller

cfgVars == <<config, source, parent_dir>>
runVars == <<pc, pos, events_batch, total_processed, skipped_events, exc,
             raised, stats>>
srcVars == <<client, client_closes, read_response, stops>>
writerVars == <<connection, events_processed, batches_processed>>
driverVars == <<sqlite_opens, sqlite_closes>>
storeVars == <<tables, events_tx, events_db, meta_tx, meta_db, now>>
histVars == <<calls, normalized, loop_exit, run, first_run>>
sessVars == <<opened, close_failed, close_raised>>
vars == <<cfgVars, runVars, srcVars, writerVars, driverVars, storeVars,
          histVars, sessVars>>

Min(a, b) == IF a < b THEN a ELSE b

Configs ==
    [batch_size : 1..MaxBatchSize,
     commit_frequency : 1..MaxFreq,
     validate_data : BOOLEAN]

RECURSIVE SeqsUpTo(_, _)
SeqsUpTo(S, n) ==
    IF n = 0 THEN {<<>>}
    ELSE LET shorter == SeqsUpTo(S, n - 1) IN
         shorter \cup {Append(q, e) : q \in {x \in shorter : Len(x) = n - 1}, e \in S}

\* n / d as a fraction; d = 0 is the division that faults.
Quotient(n, d) == [num |-> n, den |-> d]
Zero == Quotient(0, 1)

NoStats == [returned |-> FALSE, total_events |-> 0,
            events_processed_this_session |-> 0, batches_processed |-> 0,
            conversion_duration_seconds |-> 0, events_per_second |-> Zero,
            skipped_events |-> 0]
NoExit == [left |-> FALSE, by |-> NoExc, pending |-> <<>>, flushes |-> 0]
NoFirst == [done |-> FALSE, events |-> {}, events_processed |-> 0,
            committed |-> FALSE]
NotOpened == [from |-> 0, base |-> {}]
NotClosed == {}

\* Nothing acquired, a SQLiteEventStore as __init__ leaves it.
Unopened ==
    /\ pos = 0 /\ events_batch = <<>>
    /\ total_processed = 0 /\ skipped_events = 0
    /\ exc = NoExc /\ raised = "none" /\ stats = NoStats
    /\ client = "none" /\ client_closes = 0
    /\ read_response = "none" /\ stops = 0
    /\ connection = "None" /\ events_processed = 0 /\ batches_processed = 0
    /\ sqlite_opens = 0 /\ sqlite_closes = 0
    /\ now = 1
    /\ calls = <<>> /\ normalized = <<>> /\ loop_exit = NoExit
    /\ run = 1 /\ first_run = NoFirst
    /\ opened = NotOpened /\ close_failed = NotClosed
    /\ close_raised = FALSE

\* A destination file that does not exist yet.
NewFile ==
    /\ tables = {} /\ events_tx = {} /\ events_db = {}
    /\ meta_tx = {} /\ meta_db = {}

\* State shared by every start on a fresh destination.
Fresh == Unopened /\ NewFile

Init ==
    /\ config \in Configs
    /\ source \in SeqsUpTo(Events, MaxSrc)
    /\ pc = "Connecting"
    /\ parent_dir = "present"
    /\ Fresh

(* ------------------------ SQLiteEventStore --------------------------- *)
\* The CHECK constraints of CREATE TABLE events.
Checks(e) ==
    /\ e.recorded_at > 0
    /\ e.type # ""
    /\ e.stream_name # ""

Row(e, t) ==
    [id |-> e.id, recorded_at |-> e.recorded_at, event_type |-> e.type,
     stream_name |-> e.stream_name, data |-> e.data,
     eventstore_metadata |-> e.eventstore_metadata, processed_at |-> t]

\* Variants of the upsert: INSERT OR IGNORE keeps the stored row, a plain
\* INSERT into a table without the key adds a second row.
InsertOrIgnore(table, r) ==
    IF \E x \in table : x.id = r.id THEN table ELSE table \cup {r}

InsertPlain(table, r) == table \cup {r}

\* INSERT OR REPLACE of one row: id is the PRIMARY KEY.
InsertOrReplace(table, r) == {x \in table : x.id # r.id} \cup {r}

\* executemany over the first n rows of events, in order.
RECURSIVE ExecuteMany(_, _, _, _)
ExecuteMany(table, events, n, t) ==
    IF n = 0 THEN table
    ELSE InsertOrReplace(ExecuteMany(table, events, n - 1, t),
                         Row(events[n], t))

\* Index of the first row the table rejects, Len + 1 when there is none.
FirstRejected(events) ==
    LET bad == {i \in 1..Len(events) : ~Checks(events[i])} IN
    IF bad = {} THEN Len(events) + 1
    ELSE CHOOSE i \in bad : \A j \in bad : i <= j

\* Rows executemany applies when the driver fails at row failAt
\* (failAt = Len + 1: no input/output failure); without the events table
\* the statement fails before its first row.
Applied(events, failAt) ==
    IF "events" \notin tables THEN 0
    ELSE Min(failAt, FirstRejected(events)) - 1

\* Variant of the no-op test: only the empty batch.
SaveIsNoopEmpty(events) == events = <<>>

\* if not events or not self.connection: return
SaveIsNoop(events) == events = <<>> \/ connection = "None"

\* Variant of the cadence test: 0-indexed modulo.
CommitDueZeroIndexed(batches) == (batches - 1) % config.commit_frequency = 0

\* if self.batches_processed % self.config.commit_frequency == 0
CommitDue(batches) == batches % config.commit_frequency = 0

\* Whether save_events_batch raises sqlite3.Error.
SaveRaises(events, failAt, commitFails) ==
    /\ ~SaveIsNoop(events)
    /\ \/ Applied(events, failAt) < Len(events)
       \/ CommitDue(batches_processed + 1) /\ commitFails

\* The driver outcomes that can be told apart for one call: the row at which
\* executemany fails, and whether a commit that is due fails.
FailPoints(events) ==
    IF SaveIsNoop(events) THEN {Len(events) + 1} ELSE 1..(Len(events) + 1)

CommitOutcomes(events, failAt) ==
    IF /\ ~SaveIsNoop(events)
       /\ Applied(events, failAt) = Len(events)
       /\ CommitDue(batches_processed + 1)
    THEN BOOLEAN ELSE {FALSE}

CloseOutcomes == IF connection = "None" THEN {0} ELSE 0..4

\* Variant of the commit: a connection in autocommit mode, where every
\* statement is durable at once.
autocommit(tx, db, ok) == tx

\* connection.commit() under isolation_level="DEFERRED": the durable table
\* becomes what the transaction wrote when the commit goes through (ok).
commit(tx, db, ok) == IF ok THEN tx ELSE db

\* Variant of the counting: the counters move only when the whole call,
\* its commit included, went through.
BatchCountedOnReturn(complete, commitFailed) == complete /\ ~commitFailed

\* self.events_processed += len(events); self.batches_processed += 1: after
\* executemany returned, before the commit test.
BatchCounted(complete, commitFailed) == complete

save_events_batch(events, failAt, commitFails) ==
    IF SaveIsNoop(events)
    THEN /\ UNCHANGED <<writerVars, storeVars>>
         /\ calls' = Append(calls, [events |-> events, noop |-> TRUE,
                                    at |-> now, applied |-> 0, commit |-> FALSE,
                                    raised |-> FALSE])
    ELSE LET n == Applied(events, failAt)
             written == ExecuteMany(events_tx, events, n, now)
             complete == n = Len(events)
             due == complete /\ CommitDue(batches_processed + 1)
             counted == BatchCounted(complete, due /\ commitFails)
         IN
         /\ events_tx' = written
         /\ events_processed' =
                IF counted THEN events_processed + Len(events)
                ELSE events_processed
         /\ batches_processed' =
                IF counted THEN batches_processed + 1 ELSE batches_processed
         /\ events_db' = commit(written, events_db, due /\ ~commitFails)
         /\ meta_db' = IF due /\ ~commitFails THEN meta_tx ELSE meta_db
         /\ now' = now + 1
         /\ calls' = Append(calls, [events |-> events, noop |-> FALSE,
                                    at |-> now, applied |-> n, commit |-> due,
                                    raised |-> ~complete \/ (due /\ commitFails)])
         /\ UNCHANGED <<connection, tables, meta_tx>>

\* str(n) of an integer, as stored in conversion_metadata.value.
Str(n) == <<"str", n>>

\* INSERT OR REPLACE INTO conversion_metadata (key, value): key is the
\* PRIMARY KEY.
update_conversion_metadata(table, key, value) ==
    {x \in table : x.key # key} \cup {[key |-> key, value |-> value]}

\* _create_schema: nothing when the events table exists, else both tables.
_create_schema(existing) ==
    IF "events" \in existing THEN existing
    ELSE existing \cup {"events", "conversion_metadata"}

\* CREATE TABLE conversion_metadata fails when only that table exists.
SchemaFails == "events" \notin tables /\ "conversion_metadata" \in tables

\* The tables connect() leaves: a driver failure (step 2) comes before the
\* schema; with SchemaFails, CREATE TABLE events has run (a DDL statement
\* outside a transaction is durable at once) when the second CREATE fails.
TablesAfterConnect(step) ==
    IF step # 0 THEN tables
    ELSE IF SchemaFails THEN tables \cup {"events"}
    ELSE _create_schema(tables)

\* connect(): step is the first driver call that fails
\*   0 none, 1 sqlite3.connect, 2 a PRAGMA / schema / index statement.
ConnectRaises(step) == step # 0 \/ SchemaFails

connect(step) ==
    IF step = 1
    THEN UNCHANGED <<writerVars, driverVars, storeVars, sessVars>>
    ELSE /\ connection' = "conn"
         /\ sqlite_opens' = sqlite_opens + 1
         /\ opened' = [from |-> Len(calls), base |-> events_db]
         /\ close_failed' = close_failed
         /\ close_raised' = close_raised
         /\ tables' = TablesAfterConnect(step)
         /\ events_tx' = events_db
         /\ meta_tx' = meta_db
         /\ UNCHANGED <<events_processed, batches_processed, sqlite_closes,
                        events_db, meta_db, now>>

\* close(): step is the first driver call that fails
\*   0 none, 1 first commit, 2 one of the two metadata upserts,
\*   3 second commit, 4 connection.close().
\* Every sqlite3.Error is logged; the handle is cleared in the finally.
\* Variant of the handler of close(): try/finally without an except clause.
Uncaught(e) == FALSE

\* except sqlite3.Error as e: logger.error(...)
Caught(e) == e = "sqlite3.Error"

CloseFailsAt(step) ==
    IF step = 1 THEN 1
    ELSE IF "conversion_metadata" \notin tables THEN 2
    ELSE step

\* Variant of the value recorded under total_events: the row count of the
\* events table.
total_events_stored == Str(Cardinality(events_tx))

\* str(self.events_processed), the value close() records under total_events.
total_events_value == Str(events_processed)

\* Whether close() raises to its caller: a driver error its handler does
\* not catch.
CloseRaises(step) ==
    /\ connection # "None"
    /\ CloseFailsAt(step) # 0
    /\ ~Caught("sqlite3.Error")

\* Variant of the try block of close(): a failure of any of its statements
\* undoes the ones before it.
ReachedStrict(f, k) == f = 0

\* Statement k of the try block of close() ran to its end when the first
\* failing statement is f (0: none fails).
Reached(f, k) == f = 0 \/ f > k

close(step) ==
    IF connection = "None"
    THEN UNCHANGED <<writerVars, driverVars, storeVars, sessVars>>
    ELSE LET f == CloseFailsAt(step)
             reached(k) == Reached(f, k)
             m1 == update_conversion_metadata(meta_tx, "last_conversion",
                                              Str(now))
             m2 == update_conversion_metadata(m1, "total_events",
                                              total_events_value)
             events_end == commit(events_tx, events_db, reached(1))
             meta_end == IF reached(3) THEN m2
                         ELSE IF reached(1) THEN meta_tx
                         ELSE meta_db
         IN
         /\ events_db' = events_end
         /\ meta_db' = meta_end
         /\ events_tx' = events_end
         /\ meta_tx' = meta_end
         /\ sqlite_closes' = IF reached(4) THEN sqlite_closes + 1
                             ELSE sqlite_closes
         /\ connection' = "None"
         /\ now' = now + 1
         /\ close_failed' = {f}
         /\ close_raised' = CloseRaises(step)
         /\ opened' = opened
         /\ UNCHANGED <<events_processed, batches_processed, sqlite_opens,
                        tables>>

\* The empty dict.
EmptyDict == [k \in {} |-> 0]

\* get_stats(): {} without a connection, else the counts the open
\* connection sees.
get_stats ==
    IF connection = "None" THEN EmptyDict
    ELSE [returned |-> FALSE,
          total_events |-> Cardinality(events_tx),
          events_processed_this_session |-> events_processed,
          batches_processed |-> batches_processed,
          skipped_events |-> 0]

(* ------------------------ eventstore_client -------------------------- *)
\* What leaves the generator for an exception e raised by the constructor
\* or thrown in at the yield: the except clauses of eventstore_client.
Reraise(e) == IF e \in Wrapped THEN "ConnectionError" ELSE e

(* -------------------------- convert_events --------------------------- *)
\* with eventstore_client(uri) as client: client = EventStoreDBClient(uri)
\* returned.
AcquireSource ==
    /\ pc = "Connecting"
    /\ client' = "open"
    /\ pc' = "Probing"
    /\ UNCHANGED <<cfgVars, sessVars, pos, events_batch, total_processed,
                   skipped_events, exc, raised, stats, client_closes,
                   read_response, stops, writerVars, driverVars, storeVars,
                   histVars>>

\* EventStoreDBClient(uri=uri) raises e: client stays None, nothing to
\* close, and e meets the except clauses of the generator.
AcquireSourceFails ==
    /\ pc = "Connecting"
    /\ \E e \in Wrapped \cup {"Exception"} :
         /\ exc' = e
         /\ raised' = Reraise(e)
    /\ pc' = "Failed"
    /\ UNCHANGED <<cfgVars, sessVars, pos, events_batch, total_processed,
                   skipped_events, stats, srcVars, writerVars,
                   driverVars, storeVars, histVars>>

\* What list(client.get_stream("__connection_test__", limit=1)) can raise:
\* the stream is absent, the server is unreachable, anything else.
ProbeErrors == {"NotFound", "ConnectionError", "Exception"}

\* The connectivity probe runs on the constructed client.
ProbeStream ==
    /\ pc = "Probing"
    /\ \E e \in {NoExc} \cup ProbeErrors : exc' = e
    /\ pc' = "Probed"
    /\ UNCHANGED <<cfgVars, sessVars, pos, events_batch, total_processed,
                   skipped_events, raised, stats, srcVars, writerVars,
                   driverVars, storeVars, histVars>>

\* Variant of the handler of the probe: only the absent stream is expected.
ProbeToleratedNotFound(e) == e = "NotFound"

\* except Exception: pass
ProbeTolerated(e) == TRUE

\* yield client: after the probe, whatever it raised.  An error the handler
\* of the probe lets through leaves the generator by its except clauses and
\* its finally closes the client.
YieldClient ==
    /\ pc = "Probed"
    /\ IF exc = NoExc \/ ProbeTolerated(exc)
       THEN /\ exc' = NoExc
            /\ pc' = "Opening"
            /\ UNCHANGED <<raised, client, client_closes>>
       ELSE /\ raised' = Reraise(exc)
            /\ client' = "closed"
            /\ client_closes' = client_closes + 1
            /\ pc' = "Failed"
            /\ exc' = exc
    /\ UNCHANGED <<cfgVars, sessVars, pos, events_batch, total_processed,
                   skipped_events, stats, read_response, stops, writerVars,
                   driverVars, storeVars, histVars>>

\* with SQLiteEventStore(db_path, config) as db: __enter__ calls connect().
\* When connect() raises, __exit__ is not called.
EnterStore ==
    /\ pc = "Opening"
    /\ \E step \in 0..2 :
         /\ connect(step)
         /\ IF ConnectRaises(step)
            THEN exc' = "sqlite3.Error" /\ pc' = "ClosingClient"
            ELSE exc' = exc /\ pc' = "ReadAll"
    /\ UNCHANGED <<cfgVars, pos, events_batch, total_processed,
                   skipped_events, raised, stats, srcVars, histVars>>

\* read_response = client.read_all()
ReadAll ==
    /\ pc = "ReadAll"
    /\ \/ /\ read_response' = "open"
          /\ pc' = "Streaming"
          /\ exc' = exc
       \/ /\ \E e \in EnvErrors : exc' = e
          /\ pc' = "ClosingStore"
          /\ read_response' = read_response
    /\ UNCHANGED <<cfgVars, sessVars, pos, events_batch, total_processed,
                   skipped_events, raised, stats, client, client_closes,
                   stops, writerVars, driverVars, storeVars, histVars>>

\* Variant of the append: insert at the front.
prepend(batch, e) == <<e>> \o batch

\* events_batch.append(sqlite_event)
append(batch, e) == Append(batch, e)

\* Variant of the flush test: strictly more than batch_size.
BatchOverfull(batch) == Len(batch) > config.batch_size

\* if len(events_batch) >= config.batch_size
BatchFull(batch) == Len(batch) >= config.batch_size

\* Variant of the remainder test: only a full remainder is flushed.
HasFullRemainder(batch) == Len(batch) >= config.batch_size

\* if events_batch:
HasRemainder(batch) == batch # <<>>

Leave(by, pending) ==
    [left |-> TRUE, by |-> by, pending |-> pending, flushes |-> 0]

\* One iteration of "for event in read_response" on the next event.
LoopBody ==
    /\ pc = "Streaming"
    /\ pos < Len(source)
    /\ pos' = pos + 1
    /\ LET event == source[pos + 1]
           r == SQLiteEvent(event, config.validate_data)
           appended == append(events_batch, r.val)
       IN
       IF r.ok
       THEN /\ normalized' = Append(normalized, r.val)
            /\ skipped_events' = skipped_events
            /\ IF BatchFull(appended)
               THEN \E failAt \in FailPoints(appended) :
                    \E commitFails \in CommitOutcomes(appended, failAt) :
                      /\ save_events_batch(appended, failAt, commitFails)
                      /\ IF SaveRaises(appended, failAt, commitFails)
                         THEN /\ events_batch' = appended
                              /\ total_processed' = total_processed
                              /\ exc' = "sqlite3.Error"
                              /\ pc' = "Stopping"
                              /\ loop_exit' = Leave("sqlite3.Error", appended)
                         ELSE /\ events_batch' = <<>>
                              /\ total_processed' =
                                     total_processed + Len(appended)
                              /\ UNCHANGED <<exc, pc, loop_exit>>
               ELSE /\ events_batch' = appended
                    /\ UNCHANGED <<total_processed, exc, pc, loop_exit,
                                   writerVars, storeVars, calls>>
       ELSE IF r.err = "EventValidationError"
       THEN /\ skipped_events' = skipped_events + 1
            /\ UNCHANGED <<events_batch, total_processed, exc, pc, loop_exit,
                           normalized, writerVars, storeVars, calls>>
       ELSE /\ exc' = r.err
            /\ pc' = "Stopping"
            /\ loop_exit' = Leave(r.err, events_batch)
            /\ UNCHANGED <<events_batch, total_processed, skipped_events,
                           normalized, writerVars, storeVars, calls>>
    /\ UNCHANGED <<cfgVars, sessVars, raised, stats, srcVars, driverVars, run,
                   first_run>>

\* The iterator raises while the next event is fetched.
SourceFails ==
    /\ pc = "Streaming"
    /\ \E e \in EnvErrors :
         /\ exc' = e
         /\ loop_exit' = Leave(e, events_batch)
    /\ pc' = "Stopping"
    /\ UNCHANGED <<cfgVars, sessVars, pos, events_batch, total_processed,
                   skipped_events, raised, stats, srcVars, writerVars,
                   driverVars, storeVars, calls, normalized, run, first_run>>

\* The operator interrupts the loop.
Interrupt ==
    /\ pc = "Streaming"
    /\ exc' = "KeyboardInterrupt"
    /\ loop_exit' = Leave("KeyboardInterrupt", events_batch)
    /\ pc' = "Stopping"
    /\ UNCHANGED <<cfgVars, sessVars, pos, events_batch, total_processed,
                   skipped_events, raised, stats, srcVars, writerVars,
                   driverVars, storeVars, calls, normalized, run, first_run>>

\* StopIteration: the for loop ends normally.
SourceExhausted ==
    /\ pc = "Streaming"
    /\ pos = Len(source)
    /\ loop_exit' = Leave("exhausted", events_batch)
    /\ pc' = "Draining"
    /\ UNCHANGED <<cfgVars, sessVars, pos, events_batch, total_processed,
                   skipped_events, exc, raised, stats, srcVars, writerVars,
                   driverVars, storeVars, calls, normalized, run, first_run>>

\* if events_batch: db.save_events_batch(events_batch)
Drain ==
    /\ pc = "Draining"
    /\ pc' = "Stopping"
    /\ IF HasRemainder(events_batch)
       THEN \E failAt \in FailPoints(events_batch) :
            \E commitFails \in CommitOutcomes(events_batch, failAt) :
              /\ save_events_batch(events_batch, failAt, commitFails)
              /\ loop_exit' = [loop_exit EXCEPT !.flushes = @ + 1]
              /\ IF SaveRaises(events_batch, failAt, commitFails)
                 THEN exc' = "sqlite3.Error"
                      /\ total_processed' = total_processed
                 ELSE exc' = exc
                      /\ total_processed' =
                             total_processed + Len(events_batch)
       ELSE UNCHANGED <<total_processed, exc, loop_exit, writerVars,
                        storeVars, calls>>
    /\ UNCHANGED <<cfgVars, sessVars, pos, events_batch, skipped_events, raised, stats,
                   srcVars, driverVars, normalized, run, first_run>>

\* Variant of the cleanup clause: a handler that runs on normal exit and on
\* Exception but not on a BaseException such as KeyboardInterrupt.
OnException(e) == e # "KeyboardInterrupt"

\* finally: the clause runs whatever is in flight (nothing, or exception e).
Finally(e) == TRUE

\* Variant of what follows the try statement: the report is computed even
\* with an exception in flight.
AfterFinallyAlways(e) == "Reporting"

\* After the finally clause: the statement after the try when nothing is in
\* flight, else the exception leaves the with block of the store.
AfterFinally(e) == IF e = NoExc THEN "Reporting" ELSE "ClosingStore"

\* finally: read_response.stop(); then on to the report, or out through
\* "except Exception: raise".
StopRead ==
    /\ pc = "Stopping"
    /\ read_response' = IF Finally(exc) THEN "stopped" ELSE read_response
    /\ stops' = IF Finally(exc) THEN stops + 1 ELSE stops
    /\ pc' = AfterFinally(exc)
    /\ UNCHANGED <<cfgVars, sessVars, pos, events_batch, total_processed,
                   skipped_events, exc, raised, stats, client, client_closes,
                   writerVars, driverVars, storeVars, histVars>>

\* time.time() - start_time: the wall clock did not move, moved on, or was
\* set back during the run.
Elapsed == {-1, 0, 2}

\* Variant of the throughput: the division without its guard.
EventsPerSecondUnguarded(n, duration) == Quotient(n, duration)

\* total_processed / duration if duration > 0 else 0
EventsPerSecond(n, duration) ==
    IF duration > 0 THEN Quotient(n, duration) ELSE Zero

\* stats = db.get_stats(); stats.update(...); return stats.  The SELECTs
\* may raise sqlite3.Error and db_path.stat() may raise OSError.
Report ==
    /\ pc = "Reporting"
    /\ pc' = "ClosingStore"
    /\ \/ \E duration \in Elapsed :
            LET rate == EventsPerSecond(total_processed, duration) IN
            IF rate.den = 0
            THEN exc' = "ZeroDivisionError" /\ stats' = stats
            ELSE /\ stats' = [returned |-> TRUE,
                              total_events |-> get_stats.total_events,
                              events_processed_this_session |->
                                  get_stats.events_processed_this_session,
                              batches_processed |->
                                  get_stats.batches_processed,
                              conversion_duration_seconds |-> duration,
                              events_per_second |-> rate,
                              skipped_events |-> skipped_events]
                 /\ exc' = exc
       \/ /\ \E e \in {"sqlite3.Error", "OSError"} : exc' = e
          /\ stats' = stats
    /\ UNCHANGED <<cfgVars, sessVars, pos, events_batch, total_processed,
                   skipped_events, raised, srcVars, writerVars, driverVars,
                   storeVars, histVars>>

\* SQLiteEventStore.__exit__: self.close()
ExitStore ==
    /\ pc = "ClosingStore"
    /\ \E step \in CloseOutcomes :
         /\ close(step)
         /\ exc' = IF CloseRaises(step) THEN "sqlite3.Error" ELSE exc
    /\ pc' = "ClosingClient"
    /\ UNCHANGED <<cfgVars, pos, events_batch, total_processed,
                   skipped_events, raised, stats, srcVars, histVars>>

\* The with statement leaves eventstore_client: an exception of the body is
\* thrown into the generator at the yield and meets its except clauses; the
\* finally closes the client.
ExitClient ==
    /\ pc = "ClosingClient"
    /\ client' = "closed"
    /\ client_closes' = client_closes + 1
    /\ IF exc = NoExc
       THEN raised' = "returned" /\ pc' = "Done"
       ELSE raised' = Reraise(exc) /\ pc' = "Failed"
    /\ UNCHANGED <<cfgVars, sessVars, pos, events_batch, total_processed,
                   skipped_events, exc, stats, read_response, stops,
                   writerVars, driverVars, storeVars, histVars>>

Next ==
    \/ AcquireSource
    \/ AcquireSourceFails
    \/ ProbeStream
    \/ YieldClient
    \/ EnterStore
    \/ ReadAll
    \/ LoopBody
    \/ SourceFails
    \/ Interrupt
    \/ SourceExhausted
    \/ Drain
    \/ StopRead
    \/ Report
    \/ ExitStore
    \/ ExitClient

Spec == Init /\ [][Next]_vars

(* ----------------------- a second run -------------------------------- *)
\* close() was called and its first commit went through (close() logs a
\* failure of it and returns).
FinalCommitDone == close_failed # {} /\ 1 \notin close_failed

\* The operator starts convert_events again, with the same configuration,
\* against the same source and the same destination file, after a run that
\* returned: new client, new SQLiteEventStore, the file as it was left.
Rerun ==
    /\ pc = "Done"
    /\ run < MaxRuns
    /\ run' = run + 1
    /\ first_run' = [done |-> TRUE, events |-> events_db,
                     events_processed |-> events_processed,
                     committed |-> FinalCommitDone]
    /\ pc' = "Connecting"
    /\ pos' = 0 /\ events_batch' = <<>>
    /\ total_processed' = 0 /\ skipped_events' = 0
    /\ exc' = NoExc /\ raised' = "none" /\ stats' = NoStats
    /\ client' = "none" /\ client_closes' = 0
    /\ read_response' = "none" /\ stops' = 0
    /\ connection' = "None" /\ events_processed' = 0
    /\ batches_processed' = 0
    /\ sqlite_opens' = 0 /\ sqlite_closes' = 0
    /\ calls' = <<>> /\ normalized' = <<>> /\ loop_exit' = NoExit
    /\ opened' = NotOpened /\ close_failed' = NotClosed
    /\ close_raised' = FALSE
    /\ UNCHANGED <<cfgVars, storeVars>>

NextRerun ==
    \/ AcquireSource
    \/ AcquireSourceFails
    \/ ProbeStream
    \/ YieldClient
    \/ EnterStore
    \/ ReadAll
    \/ LoopBody
    \/ SourceFails
    \/ Interrupt
    \/ SourceExhausted
    \/ Drain
    \/ StopRead
    \/ Report
    \/ ExitStore
    \/ ExitClient
    \/ Rerun

\* The runs that are repeated do not validate their events
\* (--no-validation), so that every kind of payload is stored.
InitRerun == Init /\ ~config.validate_data

SpecRerun == InitRerun /\ [][NextRerun]_vars

(* --------------------- runs without validation ----------------------- *)
\* convert_events with validate_data = False (--no-validation) over sources
\* whose events carry every kind of payload.
InitUnvalidated ==
    /\ config \in {c \in Configs : ~c.validate_data /\ c.commit_frequency = 1}
    /\ source \in SeqsUpTo({EvP(d) : d \in PayloadKinds}, MaxKinds)
    /\ pc = "Connecting"
    /\ parent_dir = "present"
    /\ Fresh

SpecUnvalidated == InitUnvalidated /\ [][Next]_vars

(* ------------------------- ConversionConfig -------------------------- *)
\* ConversionConfig(eventstore_uri, db_path, batch_size, commit_frequency)
\* is constructed from arguments of every kind, with the parent directory
\* of db_path absent, present, or impossible to create (a file in the way,
\* no permission); afterwards the caller assigns to fields of the object.
ConfigArgs ==
    [eventstore_uri : {None, "", "esdb://localhost:2113"},
     batch_size : -1..MaxBatchSize,
     commit_frequency : -1..MaxFreq,
     validate_data : {TRUE}]

\* if not self.eventstore_uri
UriMissing(uri) == uri = None \/ uri = ""

\* Variant of the batch size test: zero is accepted.
BatchSizeNegative(n) == n < 0

\* if self.batch_size <= 0
BatchSizeInvalid(n) == n <= 0

\* if self.commit_frequency <= 0
CommitFrequencyInvalid(n) == n <= 0

\* The ValueError tests of __post_init__.
Invalid(c) ==
    \/ UriMissing(c.eventstore_uri)
    \/ BatchSizeInvalid(c.batch_size)
    \/ CommitFrequencyInvalid(c.commit_frequency)

\* self.db_path.parent.mkdir(parents=True, exist_ok=True) raises OSError.
MkdirFails(dir) == dir = "blocked"

\* @dataclass without frozen=True: assignment to a field is not refused and
\* __post_init__ does not run again.
Frozen == FALSE

Setattr(c, field, value) ==
    IF Frozen THEN c ELSE [c EXCEPT ![field] = value]

InitConfig ==
    /\ config \in ConfigArgs
    /\ source = <<>>
    /\ parent_dir \in {"absent", "present", "blocked"}
    /\ pc = "Constructing"
    /\ Fresh

\* __post_init__: the three tests in order, then the mkdir.
C___post_init__ ==
    /\ pc = "Constructing"
    /\ IF Invalid(config)
       THEN /\ exc' = "ValueError"
            /\ pc' = "Rejected"
            /\ parent_dir' = parent_dir
       ELSE IF MkdirFails(parent_dir)
       THEN /\ exc' = "OSError"
            /\ pc' = "Rejected"
            /\ parent_dir' = parent_dir
       ELSE /\ exc' = exc
            /\ pc' = "Constructed"
            /\ parent_dir' = "present"
    /\ UNCHANGED <<config, source, sessVars, pos, events_batch,
                   total_processed, skipped_events, raised, stats, srcVars,
                   writerVars, driverVars, storeVars, histVars>>

\* config.<field> = value on a constructed object.
C_setattr ==
    /\ pc = "Constructed"
    /\ \/ \E v \in -1..MaxBatchSize : config' = Setattr(config, "batch_size", v)
       \/ \E v \in -1..MaxFreq :
             config' = Setattr(config, "commit_frequency", v)
    /\ UNCHANGED <<source, parent_dir, sessVars, runVars, srcVars, writerVars,
                   driverVars, storeVars, histVars>>

NextConfig ==
    \/ C___post_init__
    \/ C_setattr

SpecConfig == InitConfig /\ [][NextConfig]_vars

(* ---------------------- SQLiteEvent on its own ----------------------- *)
\* A caller constructs SQLiteEvent(event, validate) for one event, as the
\* unit tests do: normalized holds the record, or exc the class of the
\* exception and raised its reason.
InitNormalize ==
    /\ config \in {c \in Configs : c.batch_size = 1 /\ c.commit_frequency = 1}
    /\ source \in {<<e>> : e \in NormalizeInputs}
    /\ pc = "Normalize"
    /\ parent_dir = "present"
    /\ Fresh

N_SQLiteEvent ==
    /\ pc = "Normalize"
    /\ LET r == SQLiteEvent(source[1], config.validate_data) IN
         /\ normalized' = IF r.ok THEN <<r.val>> ELSE <<>>
         /\ exc' = r.err
         /\ raised' = IF r.ok THEN "returned" ELSE r.why
    /\ pos' = 1
    /\ pc' = "Normalized"
    /\ UNCHANGED <<cfgVars, sessVars, events_batch, total_processed,
                   skipped_events, stats, srcVars, writerVars, driverVars,
                   storeVars, calls, loop_exit, run, first_run>>

NextNormalize == N_SQLiteEvent

SpecNormalize == InitNormalize /\ [][NextNormalize]_vars

(* ------------------ SQLiteEventStore used directly ------------------- *)
\* A caller drives one SQLiteEventStore through its public methods, as the
\* unit tests do: save_events_batch and close at any time, before and after
\* the one connect of the object.
RecA1 == SQLiteEvent(EvA1, TRUE).val
RecA2 == SQLiteEvent(EvA2, TRUE).val
RecB == SQLiteEvent(EvB, FALSE).val
RecC == SQLiteEvent(EvC, TRUE).val

\* The batches the caller passes: empty, one row, the same id twice in one
\* batch with another payload, and a row with another id.
WriterBatches ==
    {<<>>, <<RecA1>>, <<RecA2, RecA1>>, <<RecB>>}

InitWriter ==
    /\ config \in {c \in Configs : c.batch_size = 1 /\ c.validate_data}
    /\ source = <<>>
    /\ pc = "Writer"
    /\ parent_dir = "present"
    /\ Fresh

W_connect ==
    /\ pc = "Writer"
    /\ connection = "None"
    /\ sqlite_opens = 0
    /\ \E step \in 0..2 : connect(step)
    /\ UNCHANGED <<cfgVars, runVars, srcVars, histVars>>

W_save_events_batch ==
    /\ pc = "Writer"
    /\ Len(calls) < MaxCalls
    /\ \E events \in WriterBatches :
         \E failAt \in FailPoints(events) :
           \E commitFails \in CommitOutcomes(events, failAt) :
              save_events_batch(events, failAt, commitFails)
    /\ UNCHANGED <<cfgVars, sessVars, runVars, srcVars, driverVars, normalized,
                   loop_exit, run, first_run>>

W_close ==
    /\ pc = "Writer"
    /\ \E step \in CloseOutcomes : close(step)
    /\ UNCHANGED <<cfgVars, runVars, srcVars, histVars>>

NextWriter ==
    \/ W_connect
    \/ W_save_events_batch
    \/ W_close

SpecWriter == InitWriter /\ [][NextWriter]_vars

(* --------------- SQLiteEventStore on an existing file ---------------- *)
\* The destination file before the store is used: neither table, one of
\* the two, or both, with the rows an earlier session left.
PriorRow == Row(RecB, 0)
PriorEntry == [key |-> "total_events", value |-> Str(1)]

ExistingFile ==
    /\ tables \in SUBSET {"events", "conversion_metadata"}
    /\ events_db \in (IF "events" \in tables THEN {{}, {PriorRow}} ELSE {{}})
    /\ meta_db \in (IF "conversion_metadata" \in tables
                     THEN {{}, {PriorEntry}} ELSE {{}})
    /\ events_tx = events_db
    /\ meta_tx = meta_db

\* The methods of the store; pc lists the ones that ran, in order.
Methods ==
    {"connect", "save_events_batch", "update_conversion_metadata",
     "get_stats", "close"}

InitFile ==
    /\ config \in {c \in Configs : c.batch_size = 1 /\ c.validate_data}
    /\ source = <<>>
    /\ pc = <<>>
    /\ parent_dir = "present"
    /\ Unopened
    /\ ExistingFile

\* The method that ran last.
Last == IF pc = <<>> THEN "none" ELSE pc[Len(pc)]

F_connect ==
    /\ Len(pc) < MaxFileCalls
    /\ connection = "None"
    /\ \E step \in 0..2 :
         /\ connect(step)
         /\ raised' = IF ConnectRaises(step) THEN "sqlite3.Error"
                       ELSE "returned"
    /\ pc' = Append(pc, "connect")
    /\ UNCHANGED <<cfgVars, pos, events_batch, total_processed,
                   skipped_events, exc, stats, srcVars, histVars>>

F_save_events_batch ==
    /\ Len(pc) < MaxFileCalls
    /\ \E events \in {<<>>, <<RecA1>>} :
         \E failAt \in FailPoints(events) :
           \E commitFails \in CommitOutcomes(events, failAt) :
              /\ save_events_batch(events, failAt, commitFails)
              /\ raised' = IF SaveRaises(events, failAt, commitFails)
                            THEN "sqlite3.Error" ELSE "returned"
    /\ pc' = Append(pc, "save_events_batch")
    /\ UNCHANGED <<cfgVars, sessVars, pos, events_batch, total_processed,
                   skipped_events, exc, stats, srcVars, driverVars,
                   normalized, loop_exit, run, first_run>>

\* update_conversion_metadata(key, value): nothing without a connection;
\* else one upsert, which the driver may fail (fails) and which fails
\* without the table.  No commit.
F_update_conversion_metadata ==
    /\ Len(pc) < MaxFileCalls
    /\ \E value \in 1..2, fails \in BOOLEAN :
         IF connection = "None"
         THEN raised' = "returned" /\ meta_tx' = meta_tx
         ELSE IF fails \/ "conversion_metadata" \notin tables
         THEN raised' = "sqlite3.Error" /\ meta_tx' = meta_tx
         ELSE /\ raised' = "returned"
              /\ meta_tx' = update_conversion_metadata(meta_tx, "checkpoint",
                                                        Str(value))
    /\ pc' = Append(pc, "update_conversion_metadata")
    /\ UNCHANGED <<cfgVars, sessVars, pos, events_batch, total_processed,
                   skipped_events, exc, stats, srcVars, writerVars,
                   driverVars, tables, events_tx, events_db, meta_db, now,
                   histVars>>

\* get_stats(): {} without a connection; else the SELECTs, which fail
\* without the events table, and db_path.stat().
F_get_stats ==
    /\ Len(pc) < MaxFileCalls
    /\ IF connection = "None"
       THEN raised' = "returned" /\ stats' = get_stats
       ELSE IF "events" \notin tables
       THEN raised' = "sqlite3.Error" /\ stats' = stats
       ELSE \/ raised' = "returned" /\ stats' = get_stats
            \/ raised' = "OSError" /\ stats' = stats
    /\ pc' = Append(pc, "get_stats")
    /\ UNCHANGED <<cfgVars, sessVars, pos, events_batch, total_processed,
                   skipped_events, exc, srcVars, writerVars, driverVars,
                   storeVars, histVars>>

F_close ==
    /\ Len(pc) < MaxFileCalls
    /\ \E step \in CloseOutcomes :
         /\ close(step)
         /\ raised' = IF CloseRaises(step) THEN "sqlite3.Error"
                       ELSE "returned"
    /\ pc' = Append(pc, "close")
    /\ UNCHANGED <<cfgVars, pos, events_batch, total_processed,
                   skipped_events, exc, stats, srcVars, histVars>>

NextFile ==
    \/ F_connect
    \/ F_save_events_batch
    \/ F_update_conversion_metadata
    \/ F_get_stats
    \/ F_close

SpecFile == InitFile /\ [][NextFile]_vars

(* ------------------- a run against an existing file ------------------ *)
\* convert_events with a destination path where a file already is, over
\* an empty or a short source.
InitResume ==
    /\ config \in {c \in Configs : c.validate_data}
    /\ source \in SeqsUpTo({EvA1}, MaxResume)
    /\ pc = "Connecting"
    /\ parent_dir = "present"
    /\ Unopened
    /\ ExistingFile

SpecResume == InitResume /\ [][Next]_vars

(* ============================ properties ============================= *)
\* Call i of the log ran its batched upsert to the end.
UpsertDone(i) == ~calls[i].noop /\ calls[i].applied = Len(calls[i].events)

\* Position of call i among the calls whose upsert ran to the end.
Ordinal(i) == Cardinality({j \in 1..i : UpsertDone(j)})

\* C1: with commit_frequency N, save_events_batch issues a commit on the
\* k-th batch it has written (k counts the calls whose batched upsert ran to
\* the end) exactly when k is a multiple of N; every other call issues none.
C1_CommitCadence ==
    \A i \in 1..Len(calls) :
        calls[i].commit <=>
            (UpsertDone(i) /\ Ordinal(i) % config.commit_frequency = 0)

\* Three batches written with N = 2: a commit on the 2nd only.
C1_Witness ==
    /\ config.commit_frequency = 2
    /\ Len(calls) = 3
    /\ \A i \in 1..3 : UpsertDone(i)
    /\ ~calls[1].commit /\ calls[2].commit /\ ~calls[3].commit

CeilDiv(a, b) == (a + b - 1) \div b

\* C2: a run that returns with V normalized events has called
\* save_events_batch ceil(V / batch_size) times, every batch but the last of
\* exactly batch_size records and the last of 1..batch_size; no empty batch
\* is ever passed, and between two events the pending buffer holds fewer
\* than batch_size records.
C2_Batching ==
    /\ pc = "Streaming" => Len(events_batch) < config.batch_size
    /\ \A i \in 1..Len(calls) : calls[i].events # <<>>
    /\ raised = "returned" =>
         /\ Len(calls) = CeilDiv(Len(normalized), config.batch_size)
         /\ \A i \in 1..Len(calls) :
              IF i < Len(calls)
              THEN Len(calls[i].events) = config.batch_size
              ELSE Len(calls[i].events) \in 1..config.batch_size

\* Three events with batch_size 2: batches of 2 and 1.
C2_Witness ==
    /\ raised = "returned"
    /\ config.batch_size = 2
    /\ Len(normalized) = 3
    /\ Len(calls) = 2
    /\ Len(calls[1].events) = 2
    /\ Len(calls[2].events) = 1

RECURSIVE Concat(_, _)
Concat(log, n) ==
    IF n = 0 THEN <<>> ELSE Concat(log, n - 1) \o log[n].events

\* C3: in a run that returns, the batches passed to save_events_batch, one
\* after the other in call order, are the normalized events in the order
\* they were read: none duplicated, dropped or reordered.
C3_OrderPreserved ==
    raised = "returned" => Concat(calls, Len(calls)) = normalized

\* Three different records delivered over two batches.
C3_Witness ==
    /\ raised = "returned"
    /\ Len(calls) = 2
    /\ Len(normalized) = 3
    /\ normalized[1] # normalized[2]
    /\ normalized[2] # normalized[3]

\* A payload the validation of section 4.1 rejects: undecodable bytes, an
\* unserialisable object, or a text of more than 1,048,576 bytes.
InvalidPayload(e) ==
    /\ e.data.kind # "none"
    /\ \/ e.data.kind \in {"bytes", "obj"} /\ ~e.data.good
       \/ e.data.nbytes > 1048576

\* The events among the first n of the source that validation rejects.
Rejected(n) ==
    {i \in 1..n : ~source[i].recorded_at.isnone /\ InvalidPayload(source[i])}

\* The first n events of the source that a record r can come from.
Origins(r, n) ==
    {i \in 1..n : /\ source[i].id = r.id
                  /\ ~source[i].recorded_at.isnone
                  /\ source[i].recorded_at.ts = r.recorded_at}

Buffered ==
    {events_batch[j] : j \in 1..Len(events_batch)}
      \cup UNION {{calls[i].events[j] : j \in 1..Len(calls[i].events)} :
                  i \in 1..Len(calls)}

\* C4: with validation enabled every event that validation rejects adds
\* exactly one to skipped_events, no record of it is buffered, passed to the
\* writer or stored, and when the run returns skipped_events plus the
\* writer's events_processed equals the number of events read.
C4_SkipInvalid ==
    config.validate_data =>
        /\ skipped_events = Cardinality(Rejected(pos))
        /\ \A r \in Buffered : Origins(r, pos) \ Rejected(pos) # {}
        /\ \A r \in events_tx \cup events_db :
              Origins(r, pos) \ Rejected(pos) # {}
        /\ raised = "returned" =>
              /\ pos = Len(source)
              /\ skipped_events + events_processed = Len(source)

\* Three events, one of them rejected: two written, one skipped.
C4_Witness ==
    /\ config.validate_data
    /\ raised = "returned"
    /\ Len(source) = 3
    /\ skipped_events = 1
    /\ events_processed = 2

\* The for loop has been left and the remainder test has been passed.
PastDraining == loop_exit.left /\ pc # "Draining"

\* C5 as stated: however the loop is left, also by an exception, a non-empty
\* pending buffer is flushed exactly once.
C5_FlushOnEveryExit ==
    PastDraining /\ loop_exit.pending # <<>> => loop_exit.flushes = 1

\* C5 amended: when the loop ends because the source is exhausted, a
\* non-empty pending buffer is passed to save_events_batch exactly once;
\* when the loop is left by an exception the pending buffer is not flushed.
C5_FlushOnExhaustion ==
    PastDraining =>
        IF loop_exit.by = "exhausted" /\ loop_exit.pending # <<>>
        THEN /\ loop_exit.flushes = 1
             /\ calls[Len(calls)].events = loop_exit.pending
        ELSE loop_exit.flushes = 0

\* The source ended with one record pending and that record was flushed.
C5_Witness ==
    /\ PastDraining
    /\ loop_exit.by = "exhausted"
    /\ Len(loop_exit.pending) = 1
    /\ loop_exit.flushes = 1
    /\ Len(calls) = 2

\* C6: when a run has ended, on whatever path, the source client that was
\* acquired has been closed exactly once, every destination connection
\* that was established has been closed, and the writer's handle is None.
C6_AllReleased ==
    pc \in {"Done", "Failed"} =>
        /\ client_closes = (IF client = "none" THEN 0 ELSE 1)
        /\ sqlite_closes = sqlite_opens
        /\ connection = "None"

\* C7: an error raised inside the loop while reading, normalizing or
\* writing ends the run without a further flush and reaches the caller of
\* convert_events as the same error.
C7_ErrorVerbatim ==
    /\ pc = "Failed"
    /\ loop_exit.left
    /\ loop_exit.by \notin {"exhausted", "KeyboardInterrupt"}
    => /\ raised = loop_exit.by
       /\ loop_exit.flushes = 0

\* The columns save_events_batch writes (processed_at is the table default).
Content(r) ==
    [id |-> r.id, recorded_at |-> r.recorded_at, event_type |-> r.event_type,
     stream_name |-> r.stream_name, data |-> r.data,
     eventstore_metadata |-> r.eventstore_metadata]

Contents(table) == {Content(r) : r \in table}

Ids(table) == {r.id : r \in table}

\* The rows executemany applied through the current connection, as
\* <<call, row>> positions of the log, and their order.
Writes ==
    {w \in (1..Len(calls)) \X (1..(MaxBatchSize + MaxSrc)) :
        w[1] > opened.from /\ w[2] <= calls[w[1]].applied}

Written(w) == calls[w[1]].events[w[2]]

Before(v, w) == v[1] < w[1] \/ (v[1] = w[1] /\ v[2] < w[2])

LatestWrite(id) ==
    CHOOSE w \in Writes :
        /\ Written(w).id = id
        /\ \A v \in Writes : Written(v).id = id => (v = w \/ Before(v, w))

\* C8: while the connection is open the events table holds exactly one row
\* for every id written through it, carrying the content of the latest
\* write of that id, and the rows of the other ids are those found when the
\* connection was opened.
C8_UpsertLatest ==
    connection = "conn" =>
        LET written == {Written(w).id : w \in Writes} IN
        /\ \A r1, r2 \in events_tx : r1.id = r2.id => r1 = r2
        /\ Ids(events_tx) = written \cup Ids(opened.base)
        /\ \A r \in events_tx :
              IF r.id \in written
              THEN Content(r) = Content(Row(Written(LatestWrite(r.id)), 0))
              ELSE r \in opened.base

\* Id a written three times, twice inside one batch and last by a batch
\* that failed after its first row, next to a row of id b.
C8_Witness ==
    /\ connection = "conn"
    /\ Len(calls) = 3
    /\ opened.from = 0
    /\ calls[1].events = <<RecA2, RecA1>> /\ calls[1].applied = 2
    /\ calls[2].events = <<RecB>> /\ calls[2].applied = 1
    /\ calls[3].events = <<RecA2, RecA1>> /\ calls[3].applied = 1
    /\ Contents(events_tx) = {Content(Row(RecA2, 0)), Content(Row(RecB, 0))}

Reflected(id, t) == \E r \in events_db : r.id = id /\ r.processed_at >= t

\* C10: in no state are some rows of one batch durable while other rows of
\* the same batch are not.
C10_BatchAtomic ==
    \A i \in 1..Len(calls) :
        LET ids == {calls[i].events[j].id : j \in 1..Len(calls[i].events)} IN
        (\E id \in ids : Reflected(id, calls[i].at))
            => (\A id \in ids : Reflected(id, calls[i].at))

\* Call i of the log returned without raising.
Returned(i) == ~calls[i].noop /\ ~calls[i].raised

\* The table after the rows that the first k calls of the log applied.
RECURSIVE Replay(_, _, _)
Replay(table, log, k) ==
    IF k = 0 THEN table
    ELSE ExecuteMany(Replay(table, log, k - 1), log[k].events,
                     log[k].applied, log[k].at)

\* The last multiple of commit_frequency that is <= b.
LastScheduled(b) == config.commit_frequency * (b \div config.commit_frequency)

\* C11 as stated: before close() the durable rows are those of the first
\* N * floor(b / N) batches, b being the batches the writer has counted as
\* written (batches_processed); after a clean close() every batch written is
\* durable.
C11_DurablePrefix ==
    /\ connection = "conn" =>
          events_db = Replay(opened.base, calls, LastScheduled(batches_processed))
    /\ close_failed = {0} =>
          events_db = Replay(opened.base, calls, Len(calls))

\* C11 amended: before close() the durable rows are those of the first
\* N * floor(b / N) batches, b being the number of save_events_batch calls
\* that returned without error (a batch whose scheduled commit failed is
\* counted by the writer and is not durable); after a close() whose final
\* commit went through, also one reached by unwinding from an interrupt,
\* every row written in the session is durable.
C11_DurablePrefixReturned ==
    /\ connection = "conn" =>
          LET b == Cardinality({i \in 1..Len(calls) : Returned(i)}) IN
          events_db = Replay(opened.base, calls, LastScheduled(b))
    /\ FinalCommitDone =>
          events_db = Replay(opened.base, calls, Len(calls))

\* Three batches written with N = 2 and the connection still open: the
\* first two are durable, the third is not.
C11_Witness ==
    /\ connection = "conn"
    /\ config.commit_frequency = 2
    /\ Len(calls) = 3
    /\ \A i \in 1..3 : Returned(i)
    /\ events_db = Replay(opened.base, calls, 2)
    /\ events_db # events_tx

\* The value stored under key in the durable conversion_metadata table.
MetaKeys == {x.key : x \in meta_db}
MetaValue(key) == (CHOOSE x \in meta_db : x.key = key).value

MetadataRecorded ==
    /\ {"last_conversion", "total_events"} \subseteq MetaKeys
    /\ MetaValue("total_events") = Str(events_processed)

\* C12 as stated: after close() of an open writer, whatever the outcome of
\* the run, conversion_metadata holds last_conversion and total_events, and
\* total_events is the writer's events_processed.
C12_MetadataAlways == close_failed # {} => MetadataRecorded

\* The second commit of close() went through.
MetadataCommitDone == close_failed \in {{0}, {4}}

\* C12 amended: after a close() whose commits and metadata upserts raised no
\* driver error, whatever the outcome of the run, conversion_metadata holds
\* last_conversion and total_events, and total_events is the writer's
\* events_processed; when one of them raised, close() logs it and records
\* neither key (the table of a fresh destination stays empty).
C12_MetadataOnCommit ==
    /\ MetadataCommitDone => MetadataRecorded
    /\ close_failed # {} /\ ~MetadataCommitDone /\ run = 1 => meta_db = {}

\* A session that skipped an event and wrote the same id twice, closed
\* without a failed commit.
C12_Witness ==
    /\ MetadataCommitDone
    /\ skipped_events = 1
    /\ events_processed = 2
    /\ Cardinality(events_db) = 1
    /\ MetadataRecorded

\* C13: close() never propagates a driver error: whichever of its steps
\* fails, close() returns normally and the handle is None afterwards; once
\* closed, a further close() (like any other call) changes neither the
\* handle, the counters nor the destination.
C13_CloseSwallows ==
    /\ [](close_failed # {} => connection = "None" /\ ~close_raised)
    /\ [][close_failed # {} =>
            UNCHANGED <<writerVars, driverVars, storeVars, sessVars>>]_vars

\* close() failed at a metadata upsert after batches were written, returned,
\* and cleared the handle.
C13_Witness ==
    /\ close_failed = {2}
    /\ connection = "None"
    /\ ~close_raised
    /\ events_processed > 0
    /\ sqlite_closes = 0

\* convert_events is past the finally of the streaming loop.
PastStop ==
    pc \in {"Reporting", "ClosingStore", "ClosingClient", "Done", "Failed"}

\* C14: once read_all() has returned a handle, stop() is called on it exactly
\* once on every path that leaves the streaming loop (source exhausted, error
\* while normalizing, error in a batch write, interrupt), and not before the
\* loop is left.
C14_StopOnce ==
    /\ stops = (IF read_response = "stopped" THEN 1 ELSE 0)
    /\ pc \in {"Streaming", "Draining", "Stopping"} => read_response = "open"
    /\ PastStop /\ loop_exit.left => read_response = "stopped"
    /\ PastStop /\ ~loop_exit.left => read_response = "none"

\* The loop was left by an interrupt with a record pending, and the handle
\* was stopped.
C14_Witness ==
    /\ pc = "Failed"
    /\ loop_exit.by = "KeyboardInterrupt"
    /\ loop_exit.pending # <<>>
    /\ stops = 1

\* The payload column of an event normalized without validation: the text
\* its payload resolves to, NULL when there is none.
Unvalidated(d) ==
    CASE d.kind = "none" -> Null
      [] d.kind = "str" -> Text("str", d.val, d.nbytes)
      [] d.kind = "bytes" ->
           IF d.good THEN Text("utf8", d.val, d.nbytes) ELSE Null
      [] OTHER -> IF d.good THEN Text("json", d.val, d.nbytes) ELSE Null

\* C15: with validation disabled, whatever kinds of payload the events of
\* the source carry, no validation error is raised, no event is skipped, and
\* in a run that returns every event read was passed to the writer and
\* counted, in order, with a NULL payload where the payload did not resolve.
C15_NoSkipUnvalidated ==
    ~config.validate_data =>
        /\ skipped_events = 0
        /\ exc # "EventValidationError"
        /\ raised = "returned" =>
              /\ Len(normalized) = Len(source)
              /\ events_processed = Len(source)
              /\ Concat(calls, Len(calls)) = normalized
              /\ \A i \in 1..Len(source) :
                    /\ normalized[i].id = source[i].id
                    /\ normalized[i].data = Unvalidated(source[i].data)

\* A run without validation over an unserialisable object and an oversized
\* text: both written, none skipped.
C15_Witness ==
    /\ ~config.validate_data
    /\ raised = "returned"
    /\ Len(source) = 2
    /\ source[1].data = ObjData("x", FALSE, 1)
    /\ source[2].data = StrData("x", MAX_DATA_SIZE + 1)
    /\ normalized[1].data = Null
    /\ normalized[2].data.nbytes = MAX_DATA_SIZE + 1
    /\ events_processed = 2
    /\ skipped_events = 0

\* SQLiteEvent has been applied to an event that has a timestamp and
\* positioning attributes json.dumps accepts, so that the outcome is that of
\* the payload step.
PayloadDecides ==
    /\ pc = "Normalized"
    /\ ~source[1].recorded_at.isnone
    /\ _serialize_metadata(source[1]).ok

\* The payload is a text, or converts to one.
Resolves(d) == d.kind = "str" \/ (d.kind \in {"bytes", "obj"} /\ d.good)

\* The outcome of the constructor: the payload column of the record, or
\* "failed" with the reason.
Stored(v) == exc = NoExc /\ Len(normalized) = 1 /\ normalized[1].data = v
FailedWith(why) ==
    exc = "EventValidationError" /\ raised = why /\ normalized = <<>>

\* C16: for every payload kind and validate flag (sizes within the limit):
\* absent gives NULL and never fails; a text is stored as it is; bytes that
\* decode give the decoded text and bytes that do not fail with
\* InvalidEncoding under validation and give NULL without; an object gives
\* its JSON text, and one json.dumps rejects fails with Unserializable under
\* validation and gives NULL without.
C16_PayloadTable ==
    PayloadDecides =>
        LET d == source[1].data
            validate == config.validate_data
        IN
        /\ d.kind = "none" => Stored(Null)
        /\ d.kind # "none" /\ d.nbytes <= MAX_DATA_SIZE =>
              CASE d.kind = "str" -> Stored(Text("str", d.val, d.nbytes))
                [] d.kind = "bytes" /\ d.good ->
                     Stored(Text("utf8", d.val, d.nbytes))
                [] d.kind = "bytes" /\ ~d.good ->
                     IF validate THEN FailedWith("InvalidEncoding")
                     ELSE Stored(Null)
                [] d.kind = "obj" /\ d.good ->
                     Stored(Text("json", d.val, d.nbytes))
                [] OTHER ->
                     IF validate THEN FailedWith("Unserializable")
                     ELSE Stored(Null)

\* Undecodable bytes under validation: InvalidEncoding.
C16_Witness ==
    /\ PayloadDecides
    /\ config.validate_data
    /\ source[1].data = BytesData("x", FALSE, 1)
    /\ FailedWith("InvalidEncoding")

\* C17: for a payload that resolves to a text, under validation the
\* constructor fails with TooLarge exactly when the UTF-8 length of the text
\* exceeds 1,048,576 (a text of exactly 1,048,576 bytes is accepted); without
\* validation it succeeds and stores the text as resolved, at its full
\* length.
C17_SizeLimit ==
    PayloadDecides /\ Resolves(source[1].data) =>
        LET d == source[1].data IN
        IF config.validate_data
        THEN /\ FailedWith("TooLarge") <=> d.nbytes > 1048576
             /\ d.nbytes <= 1048576 => exc = NoExc
        ELSE /\ exc = NoExc
             /\ normalized[1].data = Unvalidated(d)
             /\ normalized[1].data.nbytes = d.nbytes

\* A text of exactly 1,048,576 bytes accepted under validation.
C17_Witness ==
    /\ PayloadDecides
    /\ config.validate_data
    /\ source[1].data = StrData("x", 1048576)
    /\ Stored(Text("str", "x", 1048576))

\* The mapping behind the metadata text of a record.
MetadataOf(r) == r.eventstore_metadata.text[2]

\* The attribute is on the event with a value other than None.
Present(event, k) == Attr(event, k).kind \notin {"missing", "none"}

\* C18: the metadata of every record SQLiteEvent returns has a key for a
\* positioning attribute exactly when the event has that attribute with a
\* value other than None, and a datetime appears as its integer seconds.
C18_MetadataKeys ==
    pc = "Normalized" /\ exc = NoExc =>
        LET event == source[1]
            metadata == MetadataOf(normalized[1])
        IN
        /\ DOMAIN metadata = {k \in PositioningAttributes : Present(event, k)}
        /\ \A k \in DOMAIN metadata :
              Attr(event, k).kind = "datetime" =>
                  metadata[k] = IntV(Attr(event, k).v)

\* C19: whatever values the positioning attributes hold, the metadata step
\* of SQLiteEvent raises nothing.
C19_MetadataNeverFails ==
    pc = "Normalized" => ~(exc = "Exception" /\ raised = "TypeError")

\* C20: every record SQLiteEvent returns, and so every record passed to
\* save_events_batch, has recorded_at > 0, a non-empty type and a non-empty
\* stream name: no record fails a CHECK constraint of the events table.
C20_RecordsPassChecks ==
    /\ \A i \in 1..Len(normalized) : Checks(normalized[i])
    /\ \A i \in 1..Len(calls) : FirstRejected(calls[i].events) > Len(calls[i].events)

\* The arguments the specification has construction refuse.
ShouldReject(c) ==
    \/ c.eventstore_uri \in {None, ""}
    \/ c.batch_size <= 0
    \/ c.commit_frequency <= 0

\* C21 as stated: construction fails at once exactly when the source
\* address is empty or absent, batch_size <= 0 or commit_frequency <= 0, then
\* creating no directory; it succeeds for every other input.
C21_RejectsExactlyInvalid ==
    [][pc = "Constructing" =>
          /\ pc' = "Rejected" <=> ShouldReject(config)
          /\ pc' = "Rejected" => parent_dir' = parent_dir]_vars

\* C21 amended: construction fails with ValueError exactly when the source
\* address is empty or absent, batch_size <= 0 or commit_frequency <= 0; for
\* any other input it creates the parent directory of the destination and
\* succeeds, unless the directory cannot be created, in which case the
\* OSError of mkdir leaves the constructor; no directory is created by a
\* construction that fails.
C21_RejectsInvalidOrBlocked ==
    [][pc = "Constructing" =>
          /\ (pc' = "Rejected" /\ exc' = "ValueError") <=> ShouldReject(config)
          /\ (pc' = "Rejected" /\ exc' = "OSError") <=>
                 (~ShouldReject(config) /\ parent_dir = "blocked")
          /\ pc' = "Rejected" => parent_dir' = parent_dir
          /\ pc' = "Constructed" <=>
                 (~ShouldReject(config) /\ parent_dir # "blocked")
          /\ pc' = "Constructed" => parent_dir' = "present"]_vars

\* batch_size = 0 with a valid address and frequency: rejected, and the
\* absent parent directory was not created.
C21_Witness ==
    /\ pc = "Rejected"
    /\ exc = "ValueError"
    /\ config.batch_size = 0
    /\ config.eventstore_uri = "esdb://localhost:2113"
    /\ config.commit_frequency > 0
    /\ parent_dir = "absent"

\* C27: a constructed ConversionConfig does not change: batch_size and
\* commit_frequency stay greater than 0 and equal to the values validated
\* at construction.
C27_ConfigImmutable ==
    /\ [](pc = "Constructed" =>
            config.batch_size > 0 /\ config.commit_frequency > 0)
    /\ [][pc = "Constructed" => config' = config]_vars

\* C22: on a store without a connection (never connected, or closed),
\* save_events_batch, update_conversion_metadata and get_stats return
\* without an error and change neither the counters nor the handle nor the
\* destination, and get_stats returns the empty dict; on an open store,
\* save_events_batch of an empty batch returns without an error, writes no
\* row, commits nothing and leaves both counters unchanged.
C22_ClosedOrEmptyIsNoop ==
    [][/\ ( /\ connection = "None"
            /\ Last' \in {"save_events_batch", "update_conversion_metadata",
                           "get_stats"} )
          => /\ raised' = "returned"
             /\ UNCHANGED <<writerVars, driverVars, storeVars>>
             /\ Last' = "get_stats" => stats' = <<>>
       /\ ( /\ connection # "None"
            /\ Last' = "save_events_batch"
            /\ calls'[Len(calls')].events = <<>> )
          => /\ raised' = "returned"
             /\ UNCHANGED <<writerVars, driverVars, storeVars>>
             /\ ~calls'[Len(calls')].commit]_vars

\* A non-empty batch handed to a store that was opened and closed again.
C22_Witness ==
    /\ Last = "save_events_batch"
    /\ connection = "None"
    /\ sqlite_closes > 0
    /\ calls # <<>>
    /\ calls[Len(calls)].events # <<>>
    /\ calls[Len(calls)].noop
    /\ raised = "returned"
    /\ events_processed = 0

\* C26: when connect() returns normally, the events table and the
\* conversion_metadata table both exist, whatever tables the file had
\* before; nothing is created on a file that has both, and the stored rows
\* are as they were.
C26_SchemaAfterOpen ==
    [][(Last' = "connect" /\ raised' = "returned")
          => /\ tables' = {"events", "conversion_metadata"}
             /\ tables = {"events", "conversion_metadata"} => tables' = tables
             /\ events_db' = events_db
             /\ meta_db' = meta_db]_vars

\* The fraction q has the value n / d.
Equals(q, n, d) == q.den # 0 /\ d # 0 /\ q.num * d = n * q.den

\* What the report says about the throughput: the events written in the
\* session over the elapsed seconds when these are positive, 0 when they
\* are 0, and no division fault.
ThroughputReported ==
    /\ exc # "ZeroDivisionError"
    /\ stats.returned =>
         LET d == stats.conversion_duration_seconds IN
         /\ d > 0 => Equals(stats.events_per_second,
                             stats.events_processed_this_session, d)
         /\ d = 0 => Equals(stats.events_per_second, 0, 1)
         /\ stats.events_processed_this_session = events_processed

\* C23 (as stated): the throughput is reported as above and never faults,
\* and a run over an empty source reports total_events = 0,
\* events_per_second = 0 and skipped_events = 0 and never calls
\* save_events_batch.
C23_Throughput ==
    /\ ThroughputReported
    /\ source = <<>> => calls = <<>>
    /\ (stats.returned /\ source = <<>>) =>
         /\ stats.total_events = 0
         /\ Equals(stats.events_per_second, 0, 1)
         /\ stats.skipped_events = 0

\* C23 (amended): the throughput is reported as above and never faults,
\* and a run over an empty source never calls save_events_batch and
\* reports events_per_second = 0, skipped_events = 0, no event written in
\* the session, and as total_events the number of rows the destination
\* held when it was opened.
C23_ThroughputResumed ==
    /\ ThroughputReported
    /\ source = <<>> => calls = <<>>
    /\ (stats.returned /\ source = <<>>) =>
         /\ stats.total_events = Cardinality(opened.base)
         /\ stats.events_processed_this_session = 0
         /\ Equals(stats.events_per_second, 0, 1)
         /\ stats.skipped_events = 0

\* A run over an empty source, with no time elapsed, returned its report
\* on a destination that held a row.
C23_Witness ==
    /\ pc = "Done"
    /\ raised = "returned"
    /\ source = <<>>
    /\ stats.returned
    /\ stats.conversion_duration_seconds = 0
    /\ stats.total_events = 1
    /\ opened.base # {}

Phase(p) ==
    CASE p \in {"Connecting", "Probing", "Probed", "Opening", "ReadAll"} -> 1
      [] p = "Streaming" -> 2
      [] p \in {"Draining", "Stopping"} -> 3
      [] p = "Reporting" -> 4
      [] p \in {"ClosingStore", "ClosingClient"} -> 5
      [] p \in {"Done", "Failed"} -> 6

\* The run has failed: an exception is in flight that no handler swallows.
RunFailed == exc # NoExc /\ pc # "Probed"

\* C25: a run moves through Connecting, Streaming, Draining, Reporting and
\* Done in this order and never back; the statistics are queried only in
\* Reporting, after the loop ended by exhaustion and its remainder was
\* flushed, with the connection of the destination still open; Done is
\* reached only with the report; and a failed run enters nothing but its
\* cleanup: it reads no event, writes no batch and computes no report.
C25_PhaseOrder ==
    /\ []( pc = "Reporting" =>
             /\ connection = "conn"
             /\ exc = NoExc
             /\ loop_exit.left /\ loop_exit.by = "exhausted"
             /\ loop_exit.pending # <<>> => loop_exit.flushes = 1
             /\ pos = Len(source) )
    /\ []( pc = "Done" => stats.returned /\ raised = "returned" )
    /\ []( stats.returned => Phase(pc) >= 5 )
    /\ [][/\ Phase(pc') >= Phase(pc)
          /\ Phase(pc') \in {Phase(pc), Phase(pc) + 1} \/ Phase(pc') >= 5
          /\ stats' # stats => pc = "Reporting" /\ connection = "conn"
          /\ pc' = "Done" => pc = "ClosingClient" /\ exc = NoExc
          /\ RunFailed =>
               /\ pc' \in {"Stopping", "ClosingStore", "ClosingClient",
                            "Failed"}
               /\ exc' # NoExc
               /\ pos' = pos /\ calls' = calls /\ stats' = stats]_vars

\* A run that flushed a remainder after the loop, reported and returned.
C25_Witness ==
    /\ pc = "Done"
    /\ stats.returned
    /\ loop_exit.by = "exhausted"
    /\ loop_exit.flushes = 1
    /\ Len(calls) >= 2

\* Every event handed to save_events_batch has a durable row, and the
\* report counts the durable rows.
CountedAreDurable ==
    /\ stats.total_events = Cardinality(events_db)
    /\ stats.events_processed_this_session = Len(normalized)
    /\ \A i \in 1..Len(normalized) :
          \E r \in events_db : /\ r.id = normalized[i].id
                                /\ \E j \in i..Len(normalized) :
                                      /\ normalized[j].id = r.id
                                      /\ r.data = normalized[j].data

RECURSIVE SumLen(_)
SumLen(I) ==
    IF I = {} THEN 0
    ELSE LET i == CHOOSE x \in I : TRUE IN
         Len(calls[i].events) + SumLen(I \ {i})

\* C29 (as stated): a call of save_events_batch that raises leaves both
\* counters as they were, and the counters are the total length and the
\* number of the batches of the calls that returned without an error.
C29_CountersOnReturn ==
    /\ [](LET done == {i \in 1..Len(calls) : Returned(i)} IN
          /\ events_processed = SumLen(done)
          /\ batches_processed = Cardinality(done))
    /\ [][(calls' # calls /\ calls'[Len(calls')].raised) =>
             /\ events_processed' = events_processed
             /\ batches_processed' = batches_processed]_vars

\* C29 (amended): a call whose batched upsert raises leaves both counters
\* as they were; a call whose upsert ran to the end and whose scheduled
\* commit raises has counted its batch; the counters are the total length
\* and the number of the batches whose upsert ran to the end.
C29_CountersOnUpsert ==
    /\ [](LET done == {i \in 1..Len(calls) :
                         ~calls[i].noop
                         /\ calls[i].applied = Len(calls[i].events)} IN
          /\ events_processed = SumLen(done)
          /\ batches_processed = Cardinality(done))
    /\ [][calls' # calls =>
             LET c == calls'[Len(calls')] IN
             /\ (c.raised /\ c.applied < Len(c.events)) =>
                   /\ events_processed' = events_processed
                   /\ batches_processed' = batches_processed
             /\ (c.raised /\ c.applied = Len(c.events)) =>
                   /\ c.commit
                   /\ events_processed' = events_processed + Len(c.events)
                   /\ batches_processed' = batches_processed + 1]_vars

\* The scheduled commit of the first batch failed: the call raised and the
\* batch is counted.
C29_Witness ==
    /\ Len(calls) = 1
    /\ calls[1].raised
    /\ calls[1].commit
    /\ calls[1].applied = Len(calls[1].events)
    /\ batches_processed = 1
    /\ events_processed = Len(calls[1].events)
    /\ events_db = {}

\* C30: the destination is opened only with the client acquired; the
\* driver connection of the destination is closed, and the handle of the
\* store cleared, when the client is closed; and when the acquisition of
\* the client fails nothing is opened, and no table, row or metadata entry
\* is written.
C30_DestinationInsideSource ==
    /\ [](sqlite_opens > 0 => client # "none")
    /\ []( (pc = "Failed" /\ client = "none") =>
             /\ sqlite_opens = 0 /\ connection = "None"
             /\ tables = {} /\ events_tx = {} /\ events_db = {}
             /\ meta_tx = {} /\ meta_db = {} )
    /\ [][(client = "open" /\ client' = "closed") =>
             /\ connection = "None"
             /\ sqlite_closes = sqlite_opens]_vars

====
